---- MODULE Spec2Model ----
(***************************************************************************)
(* Poco::UniqueExpireStrategy<TKey, TValue>                                *)
(* (src/libs/poco/include/Poco/UniqueExpireStrategy.h).                    *)
(*                                                                         *)
(* The strategy keeps two containers:                                      *)
(*   _keyIndex : std::multimap<Timestamp, TKey>   ("TimeIndex")            *)
(*   _keys     : std::map<TKey, IndexIterator>    ("KeyIndex")             *)
(* An IndexIterator is a handle on one node of the multimap.  A node has  *)
(* an identity of its own, apart from the pair it holds, so that a handle  *)
(* can dangle, refer to another key's node, or come to refer to a node     *)
(* that was freed and allocated again.                                     *)
(* The multimap is the sequence of its nodes in iteration order.           *)
(***************************************************************************)
EXTENDS Integers, Sequences, FiniteSets, TLC

\* Number of distinct keys the cache container passes in.
NumKeys == 2

\* Timestamps (expirations and the clock) range over 0..MaxTime.
MaxTime == 2

TKey == 1..NumKeys

Timestamp == 0..MaxTime

\* Node identities.  Two per key: the node onAdd inserts for a key (line 92)
\* coexists with the key's old node until line 96 erases it.
Nodes == TKey \X {0, 1}

VARIABLES
    _keys,      \* std::map<TKey, IndexIterator>: a function key -> node
    _keyIndex,  \* std::multimap<Timestamp, TKey>: nodes in iteration order
    clock,      \* the wall clock read by "Timestamp now;"
    last,       \* the last handler the cache container invoked: see Call
    ref         \* history: key -> expiration of the latest onAdd that no onRemove/onClear followed

vars == <<_keys, _keyIndex, clock, last, ref>>

----------------------------------------------------------------------------
(* Containers *)

\* std::pair<const Timestamp, TKey> held by the multimap node `n`.
Node(ts, key, n) == [first |-> ts, second |-> key, node |-> n]

\* The nodes currently allocated in _keyIndex.
LiveNodes(idx) == { idx[i].node : i \in 1..Len(idx) }

\* The nodes _keyIndex.insert can allocate for an element of `key`: ones the
\* multimap does not hold now.
FreeNodes(idx, key) == { n \in Nodes \ LiveNodes(idx) : n[1] = key }

\* The node _keyIndex.insert allocates.  Which free node it is does not matter
\* to handlers that only follow handles; a freed node is allocated again by
\* the key's next insert but one.
NewNode(idx, key) == CHOOSE n \in FreeNodes(idx, key) : \A m \in FreeNodes(idx, key) : n[2] <= m[2]

\* multimap::lower_bound / upper_bound as positions 1..Len+1.
LowerBound(idx, ts) == 1 + Cardinality({ i \in 1..Len(idx) : idx[i].first < ts })

UpperBound(idx, ts) == 1 + Cardinality({ i \in 1..Len(idx) : idx[i].first <= ts })

\* Used in place of InsertPositions, below: the new element goes to the back,
\* as in a container kept in insertion order.
InsertPositionsBack(idx, ts) == {Len(idx) + 1}

\* Used in place of InsertPositions, below: the new element goes to the front.
InsertPositionsFront(idx, ts) == {1}

\* multimap::insert places the new element somewhere in the range of equal
\* timestamps (C++03 leaves the place unspecified; C++11 takes the upper bound).
InsertPositions(idx, ts) == LowerBound(idx, ts)..UpperBound(idx, ts)

\* The multimap after linking element e in at position p.
InsertAt(idx, p, e) == SubSeq(idx, 1, p - 1) \o <<e>> \o SubSeq(idx, p, Len(idx))

\* Used in place of Erase, below: erase(iterator) that unlinks nothing.
EraseNothing(idx, n) == idx

\* multimap::erase(iterator): unlinks the node the iterator refers to.
Erase(idx, n) == SelectSeq(idx, LAMBDA e : e.node # n)

\* Whether the handle n refers to a node of the multimap.
Live(idx, n) == n \in LiveNodes(idx)

\* it->second-> : the element the handle refers to.
Deref(idx, n) == idx[CHOOSE i \in 1..Len(idx) : idx[i].node = n]

\* _keys.find(key) != _keys.end()
Tracked(keys, key) == key \in DOMAIN keys

\* Stands for "no key" and "no timestamp" in the record of a call.
None == 0 - 1

\* The timestamp recorded for `key`: that of the element its handle refers
\* to (it->second->first), None when the key has no handle or the handle
\* refers to no element.
Recorded(idx, keys, key) ==
    IF Tracked(keys, key) /\ Live(idx, keys[key]) THEN Deref(idx, keys[key]).first ELSE None

\* The timestamp of _keyIndex.begin(), None when the multimap is empty.
Earliest(idx) == IF Len(idx) > 0 THEN idx[1].first ELSE None

\* The empty std::map.
EmptyKeys == [k \in {} |-> 0]

----------------------------------------------------------------------------
(* Comparisons against "now" *)

\* Used in place of Expired, below: an exclusive boundary.
ExpiredExclusive(ts, now) == ts < now

\* Used in place of Expired, below: the operands the other way round.
ExpiredSwapped(ts, now) == now <= ts

\* onIsValid's test, line 128: it->second->first <= now.
Expired(ts, now) == ts <= now

\* Used in place of Stale, below: an inclusive boundary.
StaleInclusive(ts, now) == ts <= now

\* onReplace's loop test, line 142: it->first < now.
Stale(ts, now) == ts < now

\* ValidArgs::invalidate(): the outcome slot becomes "invalid".
Invalidate(valid) == FALSE

----------------------------------------------------------------------------
(* The handlers as functions of the containers *)

\* Used in place of onAddIndex, below: the old element is left in the multimap.
onAddIndexNoErase(idx, keys, key, expire, n, p) ==
    InsertAt(idx, p, Node(expire, key, n))

\* Used in place of onAddIndex, below: the element of a key that is already
\* present is kept, and the new one dropped.
onAddIndexKeepOld(idx, keys, key, expire, n, p) ==
    IF Tracked(keys, key) THEN idx ELSE InsertAt(idx, p, Node(expire, key, n))

\* _keyIndex after onAdd: the new element is inserted (line 92, node n at
\* position p), and when _keys.insert found the key present (line 94) the
\* element its old handle refers to is erased (line 96).
onAddIndex(idx, keys, key, expire, n, p) ==
    LET inserted == InsertAt(idx, p, Node(expire, key, n))
    IN  IF Tracked(keys, key) THEN Erase(inserted, keys[key]) ELSE inserted

\* Used in place of onAddKeys, below: map::insert alone, which keeps the
\* handle of a key that is already present.
onAddKeysInsertOnly(keys, key, n) ==
    IF Tracked(keys, key) THEN keys ELSE (key :> n) @@ keys

\* _keys after onAdd: the key maps to the new handle, by map::insert
\* (line 93) or, when the key was present, by the assignment of line 97.
onAddKeys(keys, key, n) == (key :> n) @@ keys

\* Used in place of onRemoveIndex, below: the element stays in the multimap.
onRemoveIndexKeep(idx, keys, key) == idx

\* Used in place of onRemoveIndex, below: the test of line 104 is missing for
\* the multimap, and erase(end()) unlinks the first element.
onRemoveIndexUnguarded(idx, keys, key) ==
    IF Tracked(keys, key) THEN Erase(idx, keys[key])
    ELSE IF Len(idx) > 0 THEN Tail(idx) ELSE idx

\* Used in place of onRemoveIndex, below: a range erase, which unlinks every
\* element from begin() up to and including the key's.
onRemoveIndexUpTo(idx, keys, key) ==
    IF Tracked(keys, key) /\ Live(idx, keys[key])
    THEN SubSeq(idx, 1 + (CHOOSE i \in 1..Len(idx) : idx[i].node = keys[key]), Len(idx))
    ELSE idx

\* _keyIndex after onRemove (lines 103-106).
onRemoveIndex(idx, keys, key) ==
    IF Tracked(keys, key) THEN Erase(idx, keys[key]) ELSE idx

\* Used in place of onRemoveKeys, below: the key stays in the map.
onRemoveKeysKeep(keys, key) == keys

\* _keys after onRemove (lines 103-107).
onRemoveKeys(keys, key) ==
    IF Tracked(keys, key) THEN [k \in DOMAIN keys \ {key} |-> keys[k]] ELSE keys

\* Used in place of onClearIndex, below: _keyIndex.clear() is missing.
onClearIndexKeep(idx) == idx

\* _keyIndex after onClear (line 119).
onClearIndex(idx) == <<>>

\* Used in place of onClearKeys, below: _keys.clear() is missing.
onClearKeysKeep(keys) == keys

\* _keys after onClear (line 118).
onClearKeys(keys) == EmptyKeys

\* Used in place of onGetIndex, below: a read refreshes the entry as an
\* LRU strategy would, moving the key's element to the back.
onGetIndexRefresh(idx, keys, key) ==
    IF Tracked(keys, key) /\ Live(idx, keys[key])
    THEN Append(Erase(idx, keys[key]), Deref(idx, keys[key]))
    ELSE idx

\* _keyIndex after onGet (lines 111-114): the body is empty.
onGetIndex(idx, keys, key) == idx

\* Used in place of onIsValidIndex, below: an element found expired is erased
\* on the spot.
onIsValidIndexSelfHeal(idx, keys, key, now) ==
    IF Tracked(keys, key) /\ Live(idx, keys[key]) /\ Deref(idx, keys[key]).first <= now
    THEN Erase(idx, keys[key])
    ELSE idx

\* _keyIndex after onIsValid (lines 122-133): the handler only reads it.
onIsValidIndex(idx, keys, key, now) == idx

\* Used in place of onReplaceIndex, below: the elements walked over are
\* erased as they are collected.
onReplaceIndexEvict(idx, now) == SelectSeq(idx, LAMBDA e : ~(e.first < now))

\* _keyIndex after onReplace (lines 135-147): the handler only reads it.
onReplaceIndex(idx, now) == idx

\* Used in place of onIsValidOutcomes, below: a key that is not found is
\* invalidated.
onIsValidOutcomesUntracked(idx, keys, key, now, valid) ==
    IF ~Tracked(keys, key) \/ ~Live(idx, keys[key]) THEN {FALSE}
    ELSE IF Deref(idx, keys[key]).first <= now THEN {FALSE}
    ELSE {valid}

\* The values args.isValid() can have after onIsValid (lines 124-132), given
\* its value `valid` before.  Dereferencing a handle that refers to no
\* element is undefined: either outcome.
onIsValidOutcomes(idx, keys, key, now, valid) ==
    IF ~Tracked(keys, key) THEN {valid}
    ELSE IF ~Live(idx, keys[key]) THEN {valid, Invalidate(valid)}
    ELSE IF Expired(Deref(idx, keys[key]).first, now) THEN {Invalidate(valid)}
    ELSE {valid}

RECURSIVE onReplaceLoop(_, _, _, _)
\* The loop of onReplace (lines 142-146) from position i on.
onReplaceLoop(idx, i, now, elemsToRemove) ==
    IF i <= Len(idx) /\ Stale(idx[i].first, now)
    THEN onReplaceLoop(idx, i + 1, now, elemsToRemove \cup {idx[i].second})
    ELSE elemsToRemove

\* Used in place of onReplaceElems, below: the walk starts one past begin().
onReplaceElemsFromSecond(idx, now, elemsToRemove) ==
    onReplaceLoop(idx, 2, now, elemsToRemove)

\* Used in place of onReplaceElems, below: the collection is emptied before
\* the walk.
onReplaceElemsFresh(idx, now, elemsToRemove) == onReplaceLoop(idx, 1, now, {})

\* elemsToRemove after onReplace (lines 140-147): the walk starts at begin().
onReplaceElems(idx, now, elemsToRemove) == onReplaceLoop(idx, 1, now, elemsToRemove)

----------------------------------------------------------------------------
(* The state machine *)

\* A record of one invocation: the handler, its arguments, the clock at the
\* call, the timestamp the call found recorded on entry (for the key; for
\* onClear and onReplace the earliest one), and the caller's outcome slot and
\* collection before and after.
Call(op, key, expire, now, old, validIn, validOut, elemsIn, elemsOut) ==
    [op |-> op, key |-> key, expire |-> expire, now |-> now, old |-> old,
     validIn |-> validIn, validOut |-> validOut,
     elemsIn |-> elemsIn, elemsOut |-> elemsOut]

Init ==
    /\ _keys = EmptyKeys
    /\ _keyIndex = <<>>
    /\ clock = 0
    /\ last = Call("ctor", None, None, 0, None, TRUE, TRUE, {}, {})
    /\ ref = EmptyKeys

\* onAdd(key, value) with value.getExpiration() = expire (lines 87-99).
onAdd(key, expire) ==
    \E p \in InsertPositions(_keyIndex, expire) :
        /\ FreeNodes(_keyIndex, key) # {}
        /\ _keyIndex' = onAddIndex(_keyIndex, _keys, key, expire, NewNode(_keyIndex, key), p)
        /\ _keys' = onAddKeys(_keys, key, NewNode(_keyIndex, key))
        /\ last' = Call("onAdd", key, expire, clock, Recorded(_keyIndex, _keys, key),
                        TRUE, TRUE, {}, {})
        /\ ref' = (key :> expire) @@ ref
        /\ UNCHANGED clock

\* onRemove(key) (lines 101-109).
onRemove(key) ==
    /\ _keyIndex' = onRemoveIndex(_keyIndex, _keys, key)
    /\ _keys' = onRemoveKeys(_keys, key)
    /\ last' = Call("onRemove", key, None, clock, Recorded(_keyIndex, _keys, key),
                    TRUE, TRUE, {}, {})
    /\ ref' = [k \in DOMAIN ref \ {key} |-> ref[k]]
    /\ UNCHANGED clock

\* onGet(key) (lines 111-114).
onGet(key) ==
    /\ _keyIndex' = onGetIndex(_keyIndex, _keys, key)
    /\ last' = Call("onGet", key, None, clock, Recorded(_keyIndex, _keys, key),
                    TRUE, TRUE, {}, {})
    /\ UNCHANGED <<_keys, clock, ref>>

\* onClear() (lines 116-120).
onClear ==
    /\ _keys' = onClearKeys(_keys)
    /\ _keyIndex' = onClearIndex(_keyIndex)
    /\ last' = Call("onClear", None, None, clock, Earliest(_keyIndex), TRUE, TRUE, {}, {})
    /\ ref' = EmptyKeys
    /\ UNCHANGED clock

\* onIsValid(args) with args.key() = key and args.isValid() = valid on entry
\* (lines 122-133).  The cache container passes a fresh ValidArgs: valid.
onIsValid(key, valid) ==
    \E out \in onIsValidOutcomes(_keyIndex, _keys, key, clock, valid) :
        /\ _keyIndex' = onIsValidIndex(_keyIndex, _keys, key, clock)
        /\ last' = Call("onIsValid", key, None, clock, Recorded(_keyIndex, _keys, key),
                        valid, out, {}, {})
        /\ UNCHANGED <<_keys, clock, ref>>

\* onReplace(elemsToRemove) with the collection holding elems on entry
\* (lines 135-147).  The cache container passes a fresh, empty set.
onReplace(elems) ==
    /\ _keyIndex' = onReplaceIndex(_keyIndex, clock)
    /\ last' = Call("onReplace", None, None, clock, Earliest(_keyIndex), TRUE, TRUE,
                    elems, onReplaceElems(_keyIndex, clock, elems))
    /\ UNCHANGED <<_keys, clock, ref>>

\* The wall clock advances.
Tick ==
    /\ clock < MaxTime
    /\ clock' = clock + 1
    /\ UNCHANGED <<_keys, _keyIndex, last, ref>>

Next ==
    \/ \E key \in TKey, expire \in Timestamp : onAdd(key, expire)
    \/ \E key \in TKey : onRemove(key)
    \/ \E key \in TKey : onGet(key)
    \/ onClear
    \/ \E key \in TKey : onIsValid(key, TRUE)
    \/ onReplace({})
    \/ Tick

Spec == Init /\ [][Next]_vars

----------------------------------------------------------------------------
(* Properties: the two indexes *)

\* The positions of the TimeIndex entries that hold key k.
EntriesOf(k) == { i \in 1..Len(_keyIndex) : _keyIndex[i].second = k }

\* The positions of the TimeIndex entries that are node n.
EntriesAt(n) == { i \in 1..Len(_keyIndex) : _keyIndex[i].node = n }

\* C1 (Uniqueness): every key has at most one entry in TimeIndex, and a
\* tracked key has exactly one, whose timestamp is the expiration passed by
\* the most recent onAdd for that key.
C1_Uniqueness ==
    \A k \in TKey :
        /\ Cardinality(EntriesOf(k)) <= 1
        /\ Tracked(_keys, k) =>
              /\ Cardinality(EntriesOf(k)) = 1
              /\ k \in DOMAIN ref
              /\ \A i \in EntriesOf(k) : _keyIndex[i].first = ref[k]

\* A key was re-added with another expiration than it had, while the other
\* keys stay tracked.
C1_Witness ==
    /\ last.op = "onAdd"
    /\ last.old # None
    /\ last.old # last.expire
    /\ Cardinality(DOMAIN _keys) = NumKeys

\* C2 (I1): each key of KeyIndex has a handle that refers to exactly one live
\* TimeIndex entry, and that entry holds the same key.
C2_HandlesLive ==
    \A k \in DOMAIN _keys :
        /\ Cardinality(EntriesAt(_keys[k])) = 1
        /\ \A i \in EntriesAt(_keys[k]) : _keyIndex[i].second = k

\* A key was re-added with the timestamp it already had, which another
\* tracked key shares.
C2_Witness ==
    /\ last.op = "onAdd"
    /\ last.old = last.expire
    /\ \E k \in DOMAIN _keys : k # last.key /\ Recorded(_keyIndex, _keys, k) = last.expire

\* C3 (I2): every TimeIndex entry is the one its key's KeyIndex handle refers
\* to, and the two indexes have the same number of entries.
C3_NoOrphans ==
    /\ \A i \in 1..Len(_keyIndex) :
          /\ Tracked(_keys, _keyIndex[i].second)
          /\ _keys[_keyIndex[i].second] = _keyIndex[i].node
    /\ Len(_keyIndex) = Cardinality(DOMAIN _keys)

\* A tracked key was removed while another key stays tracked.
C3_Witness ==
    /\ last.op = "onRemove"
    /\ last.old # None
    /\ Len(_keyIndex) > 0

----------------------------------------------------------------------------
(* Properties: the queries *)

\* C4: onIsValid(k) signals invalid if and only if k is tracked and its
\* recorded expiration is <= the time of the call (inclusive boundary).
C4_IsValidInclusive ==
    last.op = "onIsValid" =>
        (last.validOut = FALSE <=>
            /\ Tracked(_keys, last.key)
            /\ Recorded(_keyIndex, _keys, last.key) <= last.now)

\* onIsValid signalled invalid a key whose expiration equals the time of the
\* call.
C4_Witness ==
    /\ last.op = "onIsValid"
    /\ Tracked(_keys, last.key)
    /\ Recorded(_keyIndex, _keys, last.key) = last.now
    /\ last.validOut = FALSE

\* C5: onReplace collects exactly the tracked keys whose recorded timestamp
\* is strictly before the time of the call.
C5_ReplaceExact ==
    last.op = "onReplace" =>
        last.elemsOut =
            { k \in DOMAIN _keys : Recorded(_keyIndex, _keys, k) < last.now }

\* onReplace collected one key and stopped at another whose timestamp equals
\* the time of the call.
C5_Witness ==
    /\ last.op = "onReplace"
    /\ last.elemsOut # {}
    /\ \E k \in DOMAIN _keys :
          k \notin last.elemsOut /\ Recorded(_keyIndex, _keys, k) = last.now

----------------------------------------------------------------------------
(* Properties: latest write wins *)

\* The answers of the reference model, a plain map key -> expiration (ref).
RefIsValid(k, now) == ~(k \in DOMAIN ref /\ ref[k] <= now)

RefCandidates(now) == { k \in DOMAIN ref : ref[k] < now }

\* C6: onIsValid and onReplace answer as the reference map does, in which
\* add overwrites, remove deletes and clear empties.
C6_RefinesMap ==
    /\ last.op = "onIsValid" => last.validOut = RefIsValid(last.key, last.now)
    /\ last.op = "onReplace" => last.elemsOut = RefCandidates(last.now)

\* A sweep collected a key and left out one that was re-added, with a
\* timestamp still in the future.
C6_Witness ==
    /\ last.op = "onReplace"
    /\ last.elemsOut # {}
    /\ \E k \in DOMAIN _keys :
          /\ _keys[k][2] = 1
          /\ k \notin last.elemsOut
          /\ Recorded(_keyIndex, _keys, k) > last.now

\* C7: a value that is already expired when added (expiration before the
\* time of the call) is accepted: the key is tracked, the next call, if it is
\* onIsValid for that key, signals invalid, and if it is onReplace, collects it.
C7_ExpiredAddReported ==
    [][ (last.op = "onAdd" /\ last.expire < last.now) =>
            /\ Tracked(_keys, last.key)
            /\ (last'.op = "onIsValid" /\ last'.key = last.key) => last'.validOut = FALSE
            /\ last'.op = "onReplace" => last.key \in last'.elemsOut ]_vars

\* onAdd accepted a key that was not tracked, with an expiration in the past.
C7_Witness ==
    /\ last.op = "onAdd"
    /\ last.old = None
    /\ last.expire < last.now
    /\ Tracked(_keys, last.key)

----------------------------------------------------------------------------
(* Properties: removal and clearing *)

\* Key k is in neither index.
Gone(k) == ~Tracked(_keys, k) /\ EntriesOf(k) = {}

\* C8: onRemove(k) on a tracked key leaves k in neither index; k stays so
\* until onAdd(k), and meanwhile onIsValid(k) reports valid and onReplace
\* does not collect k.
C8_RemoveErases ==
    [][ \A k \in TKey :
            /\ (Tracked(_keys, k) /\ last'.op = "onRemove" /\ last'.key = k) => Gone(k)'
            /\ (Gone(k) /\ ~(last'.op = "onAdd" /\ last'.key = k)) => Gone(k)'
            /\ (Gone(k)' /\ last'.op = "onIsValid" /\ last'.key = k) => last'.validOut
            /\ (Gone(k)' /\ last'.op = "onReplace") => k \notin last'.elemsOut ]_vars

\* onRemove erased a tracked key whose timestamp had passed.
C8_Witness ==
    /\ last.op = "onRemove"
    /\ last.old # None
    /\ last.old < last.now
    /\ Gone(last.key)

\* C9: onRemove(k) on an untracked key changes neither index, and so does
\* an onRemove(k) that follows an onRemove(k).
C9_RemoveUntrackedNoOp ==
    [][ /\ \A k \in TKey :
              (~Tracked(_keys, k) /\ last'.op = "onRemove" /\ last'.key = k)
                  => UNCHANGED <<_keys, _keyIndex>>
        /\ (last.op = "onRemove" /\ last'.op = "onRemove" /\ last'.key = last.key)
              => UNCHANGED <<_keys, _keyIndex>> ]_vars

\* onRemove was called for a key that was not tracked, while another was.
C9_Witness ==
    /\ last.op = "onRemove"
    /\ last.old = None
    /\ Len(_keyIndex) > 0
    /\ DOMAIN _keys # {}

\* Both indexes are empty.
Empty == DOMAIN _keys = {} /\ Len(_keyIndex) = 0

\* C10: onClear leaves both indexes empty; they stay empty until the next
\* onAdd, and meanwhile onIsValid reports valid for every key and onReplace
\* collects nothing.
C10_ClearTotal ==
    [][ /\ last'.op = "onClear" => Empty'
        /\ (Empty /\ last'.op # "onAdd") => Empty'
        /\ (Empty' /\ last'.op = "onIsValid") => last'.validOut
        /\ (Empty' /\ last'.op = "onReplace") => last'.elemsOut = {} ]_vars

\* onClear emptied indexes that held a key whose timestamp had passed.
C10_Witness ==
    /\ last.op = "onClear"
    /\ last.old # None
    /\ last.old <= last.now
    /\ Empty

----------------------------------------------------------------------------
(* Properties: what the queries leave alone *)

\* C11: onIsValid(k) for a key that is not in KeyIndex does not signal
\* invalid, whatever the time of the call.
C11_UntrackedValid ==
    (last.op = "onIsValid" /\ ~Tracked(_keys, last.key)) => last.validOut = TRUE

\* onIsValid reported valid a key that is not tracked, at a time by which
\* the tracked key's timestamp had passed.
C11_Witness ==
    /\ last.op = "onIsValid"
    /\ ~Tracked(_keys, last.key)
    /\ last.validOut = TRUE
    /\ last.now > 0
    /\ \E k \in DOMAIN _keys : Recorded(_keyIndex, _keys, k) < last.now

\* C12: onGet(k) changes neither index, for a tracked key as for an
\* untracked one, and so changes no answer of onIsValid or onReplace.
C12_GetFrame ==
    [][ last'.op = "onGet" =>
            /\ UNCHANGED <<_keys, _keyIndex>>
            /\ \A k \in TKey :
                  onIsValidOutcomes(_keyIndex', _keys', k, clock', TRUE)
                      = onIsValidOutcomes(_keyIndex, _keys, k, clock', TRUE)
            /\ onReplaceElems(_keyIndex', clock', {}) = onReplaceElems(_keyIndex, clock', {}) ]_vars

\* onGet read a tracked key whose timestamp had passed and that is not the
\* last element of TimeIndex.
C12_Witness ==
    /\ last.op = "onGet"
    /\ last.old # None
    /\ last.old <= last.now
    /\ Len(_keyIndex) > 1
    /\ _keyIndex[Len(_keyIndex)].second # last.key

\* C13: onIsValid and onReplace change neither index; the key onIsValid
\* signals invalid and the keys onReplace collects are still tracked after
\* the call.
C13_QueryFrame ==
    [][ /\ last'.op \in {"onIsValid", "onReplace"} => UNCHANGED <<_keys, _keyIndex>>
        /\ \A k \in TKey :
              (last'.op = "onIsValid" /\ last'.key = k /\ last'.validOut = FALSE) =>
                  Tracked(_keys', k) /\ EntriesOf(k)' # {}
        /\ last'.op = "onReplace" =>
              \A k \in last'.elemsOut : Tracked(_keys', k) /\ EntriesOf(k)' # {} ]_vars

\* onReplace collected every tracked key and all of them are still there.
C13_Witness ==
    /\ last.op = "onReplace"
    /\ last.elemsOut = TKey
    /\ Len(_keyIndex) = NumKeys
    /\ DOMAIN _keys = TKey

----------------------------------------------------------------------------
(* Properties: insertion order *)

\* The cache container adds keys it does not track yet, in any order, and
\* sweeps at any time.
NextOrder ==
    \/ \E key \in TKey \ DOMAIN _keys, expire \in Timestamp : onAdd(key, expire)
    \/ onReplace({})
    \/ Tick

SpecOrder == Init /\ [][NextOrder]_vars

\* C14: whatever the order in which distinct keys were added, and whatever
\* the place equal timestamps took in TimeIndex, a sweep at time t returns
\* the keys whose expiration is before t: the set depends on the keys and
\* their expirations alone.
C14_OrderIndependent ==
    /\ \A t \in Timestamp : onReplaceElems(_keyIndex, t, {}) = RefCandidates(t)
    /\ last.op = "onReplace" => last.elemsOut = RefCandidates(last.now)

\* A sweep collected two keys of equal timestamp, of which the greater key
\* comes first in TimeIndex.
C14_Witness ==
    /\ last.op = "onReplace"
    /\ Len(_keyIndex) >= 2
    /\ _keyIndex[1].first = _keyIndex[2].first
    /\ _keyIndex[1].second > _keyIndex[2].second
    /\ {_keyIndex[1].second, _keyIndex[2].second} \subseteq last.elemsOut

----------------------------------------------------------------------------
(* Properties: entries stay until the caller removes them *)

\* The step is a call that may take key k's entry away: onClear, onRemove(k)
\* or onAdd(k).  (Only Tick changes the clock; every handler records itself
\* in last.)
Touches(k) ==
    /\ clock' = clock
    /\ \/ last'.op = "onClear"
       \/ last'.op \in {"onAdd", "onRemove"} /\ last'.key = k

\* Key k is in both indexes with a timestamp that has passed: onIsValid(k)
\* signals invalid.
Overdue(k) ==
    /\ Tracked(_keys, k)
    /\ Cardinality(EntriesOf(k)) = 1
    /\ Recorded(_keyIndex, _keys, k) # None
    /\ Recorded(_keyIndex, _keys, k) <= clock

\* C15: a key that onIsValid has signalled invalid is in both indexes after
\* the call, and stays there, with the same timestamp, through every step
\* that is not onRemove(k), onAdd(k) or onClear: ticks of the clock, onGet,
\* onIsValid, onReplace, and calls for other keys.
C15_InvalidStays ==
    [][ \A k \in TKey :
            /\ (last'.op = "onIsValid" /\ last'.key = k /\ last'.validOut = FALSE)
                  => Overdue(k)'
            /\ (Overdue(k) /\ ~Touches(k)) =>
                  /\ Overdue(k)'
                  /\ Recorded(_keyIndex, _keys, k)' = Recorded(_keyIndex, _keys, k) ]_vars

\* onIsValid signalled a key invalid once more, at a later time than the
\* key's timestamp, the clock being at its end.
C15_Witness ==
    /\ last.op = "onIsValid"
    /\ last.validOut = FALSE
    /\ last.old < last.now
    /\ clock = MaxTime
    /\ Overdue(last.key)

\* C16: a step that advances the clock changes neither index; a node leaves
\* TimeIndex only in onRemove or onAdd for the key it holds or in onClear,
\* and a key leaves KeyIndex only in onRemove for it or in onClear.
C16_Lazy ==
    [][ /\ clock' # clock => UNCHANGED <<_keys, _keyIndex>>
        /\ \A i \in 1..Len(_keyIndex) :
              ~Live(_keyIndex', _keyIndex[i].node) => Touches(_keyIndex[i].second)
        /\ \A k \in DOMAIN _keys :
              ~Tracked(_keys', k) =>
                  /\ clock' = clock
                  /\ \/ last'.op = "onClear"
                     \/ last'.op = "onRemove" /\ last'.key = k ]_vars

\* The clock is at its end, past the timestamp of every tracked key, and all
\* keys are still in both indexes.
C16_Witness ==
    /\ clock = MaxTime
    /\ DOMAIN _keys = TKey
    /\ Len(_keyIndex) = NumKeys
    /\ \A k \in TKey : Recorded(_keyIndex, _keys, k) < clock
    /\ last.now < clock

----------------------------------------------------------------------------
(* onAdd, statement by statement *)

\* The record of an onAdd that has executed lines 91-92 and holds the
\* iterator `it` the insert returned.
InFlight(key, expire, now, old, it) ==
    [op |-> "onAdd:92", key |-> key, expire |-> expire, now |-> now, old |-> old,
     validIn |-> TRUE, validOut |-> TRUE, elemsIn |-> {}, elemsOut |-> {}, it |-> it]

\* No handler is between two of its statements.
Idle == last.op # "onAdd:92"

\* _keyIndex after line 92.
onAddInserted(idx, key, expire, n, p) == InsertAt(idx, p, Node(expire, key, n))

\* Used in place of onAddErased, below: line 96 is missing.
onAddErasedNothing(idx, keys, key) == idx

\* _keyIndex after lines 93-96: when _keys.insert found the key present, the
\* element its handle (still the old one) refers to is erased.
onAddErased(idx, keys, key) ==
    IF Tracked(keys, key) THEN Erase(idx, keys[key]) ELSE idx

\* Lines 91-92 of onAdd.
onAddInsert(key, expire) ==
    \E p \in InsertPositions(_keyIndex, expire) :
        /\ Idle
        /\ FreeNodes(_keyIndex, key) # {}
        /\ _keyIndex' = onAddInserted(_keyIndex, key, expire, NewNode(_keyIndex, key), p)
        /\ last' = InFlight(key, expire, clock, Recorded(_keyIndex, _keys, key),
                            NewNode(_keyIndex, key))
        /\ UNCHANGED <<_keys, clock, ref>>

\* Lines 93-98 of onAdd.
onAddRecord ==
    /\ ~Idle
    /\ _keyIndex' = onAddErased(_keyIndex, _keys, last.key)
    /\ _keys' = onAddKeys(_keys, last.key, last.it)
    /\ last' = Call("onAdd", last.key, last.expire, last.now, last.old, TRUE, TRUE, {}, {})
    /\ ref' = (last.key :> last.expire) @@ ref
    /\ UNCHANGED clock

\* onAdd in two steps, with the handlers that change the indexes; the
\* handlers run one at a time.
NextSteps ==
    \/ \E key \in TKey, expire \in Timestamp : onAddInsert(key, expire)
    \/ onAddRecord
    \/ Idle /\ \E key \in TKey : onRemove(key)
    \/ Idle /\ onClear

SpecSteps == Init /\ [][NextSteps]_vars

\* C17 as stated: at no step, the steps inside onAdd included, does
\* TimeIndex hold two entries for one key (the old entry would be removed
\* before the new one is inserted).
C17_NeverTwoEntries == \A k \in TKey : Cardinality(EntriesOf(k)) <= 1

\* C17 as the code has it: onAdd inserts the new entry first and erases the
\* old one after.  Between the two, TimeIndex holds exactly two entries for
\* a key that was tracked (the new one and the old one, which the key's
\* handle still refers to) and one for a key that was not; every other key
\* has at most one; and once onAdd has returned every key has at most one.
C17_TwoThenOne ==
    \A k \in TKey :
        /\ (Idle \/ k # last.key) => Cardinality(EntriesOf(k)) <= 1
        /\ (~Idle /\ k = last.key) =>
              /\ Cardinality(EntriesAt(last.it)) = 1
              /\ \A i \in EntriesAt(last.it) : _keyIndex[i].second = k
              /\ IF Tracked(_keys, k)
                 THEN /\ Cardinality(EntriesOf(k)) = 2
                      /\ _keys[k] # last.it
                      /\ Cardinality(EntriesAt(_keys[k])) = 1
                 ELSE Cardinality(EntriesOf(k)) = 1

\* onAdd of a tracked key stands between its insert and its erase, and
\* TimeIndex holds the key twice.
C17_Witness ==
    /\ ~Idle
    /\ Tracked(_keys, last.key)
    /\ Cardinality(EntriesOf(last.key)) = 2

----------------------------------------------------------------------------
(* Properties: the two queries against each other and against time *)

\* onIsValid(k), called now with a fresh outcome slot, signals invalid.
SignalsInvalid(k) == onIsValidOutcomes(_keyIndex, _keys, k, clock, TRUE) = {FALSE}

\* The keys onReplace, called now with an empty collection, collects.
Collected == onReplaceElems(_keyIndex, clock, {})

\* C18: at one and the same time, every key onReplace collects is signalled
\* invalid by onIsValid, and a tracked key that onIsValid signals invalid is
\* collected by onReplace unless its expiration equals that time.
C18_QueriesAgree ==
    /\ \A k \in TKey :
          /\ k \in Collected => SignalsInvalid(k)
          /\ (Tracked(_keys, k) /\ SignalsInvalid(k) /\ Recorded(_keyIndex, _keys, k) # clock)
                => k \in Collected
    /\ (last.op = "onReplace" /\ last.now = clock) =>
          \A k \in last.elemsOut : SignalsInvalid(k)
    /\ (last.op = "onIsValid" /\ last.now = clock /\ last.validOut = FALSE
            /\ last.old # last.now) => last.key \in Collected

\* onIsValid signalled invalid a key whose expiration equals the time of the
\* call; a sweep at that time leaves it out and collects another key.
C18_Witness ==
    /\ last.op = "onIsValid"
    /\ last.now = clock
    /\ last.validOut = FALSE
    /\ last.old = last.now
    /\ last.key \notin Collected
    /\ Collected # {}

\* C19: the clock never goes back, and through every step that is not
\* onAdd(k), onRemove(k) or onClear a key k that onIsValid signals invalid is
\* still signalled invalid and a key that onReplace collects is still
\* collected; a call for another key (a step that leaves the clock alone)
\* changes neither answer for k.
C19_ExpiryMonotone ==
    [][ /\ clock' >= clock
        /\ \A k \in TKey :
              /\ (last'.op = "onIsValid" /\ last'.key = k /\ last'.validOut = FALSE)
                    => SignalsInvalid(k)'
              /\ (last'.op = "onReplace" /\ k \in last'.elemsOut) => (k \in Collected)'
              /\ ~Touches(k) =>
                    /\ SignalsInvalid(k) => SignalsInvalid(k)'
                    /\ k \in Collected => (k \in Collected)'
                    /\ clock' = clock =>
                          /\ SignalsInvalid(k)' = SignalsInvalid(k)
                          /\ (k \in Collected)' = (k \in Collected) ]_vars

\* Another key was added with a timestamp not yet passed, and the key a
\* sweep collects is collected still.
C19_Witness ==
    /\ last.op = "onAdd"
    /\ last.expire >= clock
    /\ \E k \in TKey : k # last.key /\ k \in Collected /\ SignalsInvalid(k)

----------------------------------------------------------------------------
(* Properties: the caller's outcome slot and collection *)

\* The query handlers called with an outcome slot another strategy may
\* already have invalidated, and with a collection that may already hold
\* keys, over the indexes that adds of untracked keys and the clock produce.
NextArgs ==
    \/ \E key \in TKey, expire \in Timestamp : ~Tracked(_keys, key) /\ onAdd(key, expire)
    \/ \E key \in TKey, valid \in BOOLEAN : onIsValid(key, valid)
    \/ \E elems \in SUBSET TKey : onReplace(elems)
    \/ Tick

SpecArgs == Init /\ [][NextArgs]_vars

\* C20: onReplace returns the collection it was passed with the collected
\* keys added, so no key passed in is missing afterwards, and onIsValid
\* leaves an outcome slot that was invalid on entry invalid: the slot is
\* valid afterwards only if it was valid before.
C20_OnlyAdds ==
    /\ last.op = "onReplace" =>
          /\ last.elemsIn \subseteq last.elemsOut
          /\ last.elemsOut = last.elemsIn \cup onReplaceElems(_keyIndex, last.now, {})
    /\ last.op = "onIsValid" =>
          /\ last.validIn = FALSE => last.validOut = FALSE
          /\ last.validOut = TRUE => last.validIn = TRUE

\* A sweep that was passed a key it does not itself collect and that
\* collected another one, with both in the collection afterwards; or a check
\* of a key that has not expired, with the slot invalid already on entry.
C20_Witness ==
    \/ /\ last.op = "onReplace"
       /\ \E k \in last.elemsIn : k \notin onReplaceElems(_keyIndex, last.now, {})
       /\ \E k \in last.elemsOut : k \notin last.elemsIn
    \/ /\ last.op = "onIsValid"
       /\ last.validIn = FALSE
       /\ Tracked(_keys, last.key)
       /\ last.old > last.now

====
